---- MODULE Spec2Model ----
(***************************************************************************)
(* Model of lumatone-rs: the MIDI driver's protocol state machine          *)
(* (src/midi/driver.rs: State::next, State::enter), the driver loop        *)
(* (MidiDriver::run, MidiDriver::perform_effect) and the sysex frame codec *)
(* (src/midi/sysex.rs, src/midi/commands.rs).                              *)
(*                                                                         *)
(* The specifications share the module's variables:                        *)
(*   Spec      the driver loop with its environment (clients submitting    *)
(*             commands, the device delivering frames, the stop signal);   *)
(*   LiveSpec  the driver loop with a silent device, under fairness;       *)
(*   SpecTable State::next / State::enter applied to any State value;      *)
(*   SpecCodec the codec functions applied to bounded inputs.              *)
(***************************************************************************)
EXTENDS Integers, Sequences, FiniteSets, TLC

VARIABLES
  state,              \* run(): `state`; in SpecTable the State under test
  receive_timeout,    \* MidiDriver.receive_timeout: "None" | "Pending" | "Elapsed"
  retry_timeout,      \* MidiDriver.retry_timeout:   "None" | "Pending" | "Elapsed"
  commands,           \* contents of the `commands` mpsc channel
  incoming_messages,  \* contents of LumatoneIO.incoming_messages
  done_signal,        \* the oneshot `done_signal`: "Empty" | "Sent"
  pc,                 \* position of run(): "check" | "select" | "exited"
  last_action,        \* the Action the last select! produced
  accepted,           \* history: commands received from `commands`, in order
  written,            \* history: frames device_io.send wrote successfully
  inflight,           \* history: frames written and not yet answered / timed out
  hist,               \* history: the failed send, the timers started
  prev_state,         \* SpecTable: the State `next` was applied to
  action,             \* SpecTable: the Action `next` was applied with
  effect,             \* SpecTable: `enter` of the resulting State
  call                \* SpecCodec: the last codec call and its result

vars == << state, receive_timeout, retry_timeout, commands, incoming_messages,
           done_signal, pc, last_action, accepted, written, inflight, hist,
           prev_state, action, effect, call >>

driverVars == << receive_timeout, retry_timeout, commands, incoming_messages,
                 done_signal, pc, last_action, accepted, written, inflight,
                 hist >>

tableVars == << prev_state, action, effect >>

-----------------------------------------------------------------------------
(* Bounds *)

\* number of distinct frames (opaque EncodedSysex values) the driver handles
NumFrames == 2
\* total number of commands clients submit
MaxSubmit == 3
\* frames the device may have queued in incoming_messages at once
MaxIncoming == 1
\* longest send_queue of a State drawn in SpecTable
MaxQueue == 2

Frames == 1..NumFrames

-----------------------------------------------------------------------------
(* State, Action, Effect: driver.rs 11-36 *)

Idle == [kind |-> "Idle"]

ProcessingQueue(send_queue) ==
  [kind |-> "ProcessingQueue", send_queue |-> send_queue]

AwaitingResponse(send_queue, command_sent) ==
  [kind |-> "AwaitingResponse", send_queue |-> send_queue,
   command_sent |-> command_sent]

DeviceBusy(send_queue, to_retry) ==
  [kind |-> "DeviceBusy", send_queue |-> send_queue, to_retry |-> to_retry]

\* Failed(LumatoneMidiError::InvalidStateTransition(msg)); the message text is
\* not modelled
Failed == [kind |-> "Failed", error |-> "InvalidStateTransition"]

\* the thread panicked (an out-of-range index); not a State of the enum
Panicked == [kind |-> "Panicked"]

SubmitCommand(msg) == [kind |-> "SubmitCommand", msg |-> msg]
MessageSent(msg) == [kind |-> "MessageSent", msg |-> msg]
MessageReceived(msg) == [kind |-> "MessageReceived", msg |-> msg]
ResponseTimedOut == [kind |-> "ResponseTimedOut"]
ReadyToRetry == [kind |-> "ReadyToRetry"]
NoAction == [kind |-> "None"]

SendMidiMessage(msg) == [kind |-> "SendMidiMessage", msg |-> msg]
StartReceiveTimeout == [kind |-> "StartReceiveTimeout"]
StartRetryTimeout == [kind |-> "StartRetryTimeout"]
NoEffect == [kind |-> "None"]

-----------------------------------------------------------------------------
(* State::next, one operator per match arm: driver.rs 41-120 *)

\* (SubmitCommand(msg), Idle)
next_Submit_Idle(msg) == ProcessingQueue(<< msg >>)

\* mutant: the new command is put at the head of the queue
next_Submit_AwaitingResponse_Prepend(msg, send_queue, command_sent) ==
  AwaitingResponse(<< msg >> \o send_queue, command_sent)

\* mutant: the new command is processed at once, as from Idle
next_Submit_AwaitingResponse_SendNow(msg, send_queue, command_sent) ==
  ProcessingQueue(Append(send_queue, msg))

\* (SubmitCommand(msg), AwaitingResponse { send_queue, command_sent })
next_Submit_AwaitingResponse(msg, send_queue, command_sent) ==
  AwaitingResponse(Append(send_queue, msg), command_sent)

\* mutant: the new command replaces the frame waiting to be retried
next_Submit_DeviceBusy_Replace(msg, send_queue, to_retry) ==
  DeviceBusy(Append(send_queue, to_retry), msg)

\* (SubmitCommand(msg), DeviceBusy { send_queue, to_retry })
next_Submit_DeviceBusy(msg, send_queue, to_retry) ==
  DeviceBusy(Append(send_queue, msg), to_retry)

\* mutant: the sent frame stays at the head of the queue
next_Sent_ProcessingQueue_KeepHead(msg, send_queue) ==
  AwaitingResponse(send_queue, msg)

\* mutant: a sent frame stays at the head of the queue being processed
next_Sent_ProcessingQueue_Stay(msg, send_queue) ==
  ProcessingQueue(send_queue)

\* (MessageSent(msg), ProcessingQueue { send_queue }); send_queue[1..] panics
\* on an empty vector
next_Sent_ProcessingQueue(msg, send_queue) ==
  IF send_queue = << >>
    THEN Panicked
    ELSE AwaitingResponse(Tail(send_queue), msg)

\* mutant: a frame whose response timed out is kept for a retry
next_TimedOut_AwaitingResponse_Busy(send_queue, command_sent) ==
  DeviceBusy(send_queue, command_sent)

\* mutant: the queue is not tested for emptiness
next_Received_AwaitingResponse_NoEmptyCheck(send_queue) ==
  ProcessingQueue(send_queue)

\* (MessageReceived(_), AwaitingResponse { send_queue, command_sent: _ })
next_Received_AwaitingResponse(send_queue) ==
  IF send_queue = << >> THEN Idle ELSE ProcessingQueue(send_queue)

\* mutant: the command that timed out is queued again, first
next_TimedOut_AwaitingResponse_Resend(send_queue, command_sent) ==
  ProcessingQueue(<< command_sent >> \o send_queue)

\* (ResponseTimedOut, AwaitingResponse { send_queue, command_sent })
next_TimedOut_AwaitingResponse(send_queue, command_sent) ==
  IF send_queue = << >> THEN Idle ELSE ProcessingQueue(send_queue)

\* mutant: the frame to retry is queued behind the waiting commands
next_Retry_DeviceBusy_Requeue(send_queue, to_retry) ==
  ProcessingQueue(Append(send_queue, to_retry))

\* (ReadyToRetry, DeviceBusy { send_queue, to_retry })
next_Retry_DeviceBusy(send_queue, to_retry) ==
  ProcessingQueue(<< to_retry >> \o send_queue)

\* mutant: the catch-all arms for a timer Action in another state are
\* missing, so the pair falls through to the last arm
next_NoTimerCatchAll(self, a) ==
  IF a.kind = "SubmitCommand" /\ self.kind = "Idle"
    THEN next_Submit_Idle(a.msg)
  ELSE IF a.kind = "SubmitCommand" /\ self.kind = "AwaitingResponse"
    THEN next_Submit_AwaitingResponse(a.msg, self.send_queue, self.command_sent)
  ELSE IF a.kind = "SubmitCommand" /\ self.kind = "DeviceBusy"
    THEN next_Submit_DeviceBusy(a.msg, self.send_queue, self.to_retry)
  ELSE IF a.kind = "MessageSent" /\ self.kind = "ProcessingQueue"
    THEN next_Sent_ProcessingQueue(a.msg, self.send_queue)
  ELSE IF a.kind = "MessageReceived" /\ self.kind = "AwaitingResponse"
    THEN next_Received_AwaitingResponse(self.send_queue)
  ELSE IF a.kind = "MessageReceived"
    THEN self
  ELSE IF a.kind = "ResponseTimedOut" /\ self.kind = "AwaitingResponse"
    THEN next_TimedOut_AwaitingResponse(self.send_queue, self.command_sent)
  ELSE IF a.kind = "ReadyToRetry" /\ self.kind = "DeviceBusy"
    THEN next_Retry_DeviceBusy(self.send_queue, self.to_retry)
  ELSE Failed

\* mutant: a command submitted while the queue is processed is queued
next_SubmitWhileProcessing(self, a) ==
  IF a.kind = "SubmitCommand" /\ self.kind = "Idle"
    THEN next_Submit_Idle(a.msg)
  ELSE IF a.kind = "SubmitCommand" /\ self.kind = "ProcessingQueue"
    THEN ProcessingQueue(Append(self.send_queue, a.msg))
  ELSE IF a.kind = "SubmitCommand" /\ self.kind = "AwaitingResponse"
    THEN next_Submit_AwaitingResponse(a.msg, self.send_queue, self.command_sent)
  ELSE IF a.kind = "SubmitCommand" /\ self.kind = "DeviceBusy"
    THEN next_Submit_DeviceBusy(a.msg, self.send_queue, self.to_retry)
  ELSE IF a.kind = "MessageSent" /\ self.kind = "ProcessingQueue"
    THEN next_Sent_ProcessingQueue(a.msg, self.send_queue)
  ELSE IF a.kind = "MessageReceived" /\ self.kind = "AwaitingResponse"
    THEN next_Received_AwaitingResponse(self.send_queue)
  ELSE IF a.kind = "MessageReceived"
    THEN self
  ELSE IF a.kind = "ResponseTimedOut" /\ self.kind = "AwaitingResponse"
    THEN next_TimedOut_AwaitingResponse(self.send_queue, self.command_sent)
  ELSE IF a.kind = "ResponseTimedOut"
    THEN self
  ELSE IF a.kind = "ReadyToRetry" /\ self.kind = "DeviceBusy"
    THEN next_Retry_DeviceBusy(self.send_queue, self.to_retry)
  ELSE IF a.kind = "ReadyToRetry"
    THEN self
  ELSE Failed

\* the match of State::next, its arms tried in the source's order
next(self, a) ==
  IF a.kind = "SubmitCommand" /\ self.kind = "Idle"
    THEN next_Submit_Idle(a.msg)
  ELSE IF a.kind = "SubmitCommand" /\ self.kind = "AwaitingResponse"
    THEN next_Submit_AwaitingResponse(a.msg, self.send_queue, self.command_sent)
  ELSE IF a.kind = "SubmitCommand" /\ self.kind = "DeviceBusy"
    THEN next_Submit_DeviceBusy(a.msg, self.send_queue, self.to_retry)
  ELSE IF a.kind = "MessageSent" /\ self.kind = "ProcessingQueue"
    THEN next_Sent_ProcessingQueue(a.msg, self.send_queue)
  ELSE IF a.kind = "MessageReceived" /\ self.kind = "AwaitingResponse"
    THEN next_Received_AwaitingResponse(self.send_queue)
  ELSE IF a.kind = "MessageReceived"
    THEN self
  ELSE IF a.kind = "ResponseTimedOut" /\ self.kind = "AwaitingResponse"
    THEN next_TimedOut_AwaitingResponse(self.send_queue, self.command_sent)
  ELSE IF a.kind = "ResponseTimedOut"
    THEN self
  ELSE IF a.kind = "ReadyToRetry" /\ self.kind = "DeviceBusy"
    THEN next_Retry_DeviceBusy(self.send_queue, self.to_retry)
  ELSE IF a.kind = "ReadyToRetry"
    THEN self
  ELSE Failed

\* State::enter: driver.rs 123-144; send_queue[0] panics on an empty vector
enter(self) ==
  IF self.kind = "ProcessingQueue"
    THEN IF self.send_queue = << >>
           THEN [kind |-> "Panicked"]
           ELSE SendMidiMessage(Head(self.send_queue))
  ELSE IF self.kind = "DeviceBusy" THEN StartRetryTimeout
  ELSE IF self.kind = "AwaitingResponse" THEN StartReceiveTimeout
  ELSE NoEffect

-----------------------------------------------------------------------------
(* MidiDriver::perform_effect: driver.rs 166-190                            *)
(* send_ok is the outcome of device_io.send. The result carries the Action *)
(* handed back and the timers the effect replaces.                         *)

\* mutant: the Result of device_io.send is dropped
perform_effect_IgnoreSendError(e, send_ok, rt, yt) ==
  IF e.kind = "SendMidiMessage"
    THEN [ok |-> TRUE, action |-> MessageSent(e.msg),
          receive_timeout |-> rt, retry_timeout |-> yt]
  ELSE IF e.kind = "StartReceiveTimeout"
    THEN [ok |-> TRUE, action |-> NoAction,
          receive_timeout |-> "Pending", retry_timeout |-> yt]
  ELSE [ok |-> TRUE, action |-> NoAction,
        receive_timeout |-> rt, retry_timeout |-> "Pending"]

perform_effect(e, send_ok, rt, yt) ==
  IF e.kind = "SendMidiMessage"
    THEN IF send_ok
           THEN [ok |-> TRUE, action |-> MessageSent(e.msg),
                 receive_timeout |-> rt, retry_timeout |-> yt]
           ELSE [ok |-> FALSE, action |-> NoAction,
                 receive_timeout |-> rt, retry_timeout |-> yt]
  ELSE IF e.kind = "StartReceiveTimeout"
    THEN [ok |-> TRUE, action |-> NoAction,
          receive_timeout |-> "Pending", retry_timeout |-> yt]
  ELSE \* StartRetryTimeout
         [ok |-> TRUE, action |-> NoAction,
          receive_timeout |-> rt, retry_timeout |-> "Pending"]

-----------------------------------------------------------------------------
(* MidiDriver::run: driver.rs 192-274 *)

\* mutant: a timer that was never started is ready at once
SelectReady_UnstartedFires ==
  {src \in {"receive_timeout", "retry_timeout", "incoming_messages", "commands"} :
     \/ src = "receive_timeout"
     \/ src = "retry_timeout" /\ retry_timeout # "None"
     \/ src = "incoming_messages" /\ incoming_messages # << >>
     \/ src = "commands" /\ commands # << >>}

\* the branches of select! that can complete: a timer that is None is replaced
\* by sleep(Duration::MAX) and never completes; a Pending timer completes once
\* its deadline has passed; an Elapsed one (a completed Sleep polled again)
\* completes at once; a recv() completes when its channel holds a value
SelectReady ==
  {src \in {"receive_timeout", "retry_timeout", "incoming_messages", "commands"} :
     \/ src = "receive_timeout" /\ receive_timeout # "None"
     \/ src = "retry_timeout" /\ retry_timeout # "None"
     \/ src = "incoming_messages" /\ incoming_messages # << >>
     \/ src = "commands" /\ commands # << >>}

\* the Action each branch of select! maps to: driver.rs 220-239
SelectAction(src) ==
  IF src = "receive_timeout" THEN ResponseTimedOut
  ELSE IF src = "retry_timeout" THEN ReadyToRetry
  ELSE IF src = "incoming_messages" THEN MessageReceived(Head(incoming_messages))
  ELSE SubmitCommand(Head(commands))

\* whether `next` applied to (self, a) ends the wait for self's in-flight frame
Releases(self, a) ==
  \/ self.kind = "AwaitingResponse" /\ a.kind \in {"MessageReceived", "ResponseTimedOut"}
  \/ self.kind = "DeviceBusy" /\ a.kind = "ReadyToRetry"

InFlightOf(self) ==
  IF self.kind = "AwaitingResponse" THEN self.command_sent ELSE self.to_retry

\* driver.rs 241-270: the transition on the selected Action, the new state's
\* enter, its Effect, and the transition on the Action the Effect returns.
\* The result is the loop's state after the iteration, with the Effect
\* perform_effect was called with.
RunStep(self, a, send_ok, rt, yt) ==
  LET s1 == next(self, a)
      e == enter(s1)
      r == perform_effect(e, send_ok, rt, yt)
      s2 == next(s1, r.action)
      keep == [state |-> s1, exit |-> FALSE, sent |-> << >>,
               receive_timeout |-> rt, retry_timeout |-> yt,
               effect |-> NoEffect]
  IN IF s1.kind \in {"Failed", "Panicked"} \/ e.kind = "Panicked"
       THEN [keep EXCEPT !.exit = TRUE]
     ELSE IF e.kind = "None" THEN keep
     ELSE IF ~r.ok THEN [keep EXCEPT !.exit = TRUE, !.effect = e]
     ELSE IF r.action.kind = "None"
       THEN [keep EXCEPT !.receive_timeout = r.receive_timeout,
                         !.retry_timeout = r.retry_timeout,
                         !.effect = e]
     ELSE [keep EXCEPT !.state = s2, !.effect = e,
                       !.exit = (s2.kind \in {"Failed", "Panicked"}),
                       !.sent = << r.action.msg >>]

\* mutant: the stop signal is not polled
CheckDone_NoPoll ==
  /\ pc = "check"
  /\ pc' = "select"
  /\ UNCHANGED << state, receive_timeout, retry_timeout, commands,
                  incoming_messages, done_signal, last_action, accepted,
                  written, inflight, hist, tableVars, call >>

\* driver.rs 197-201: the stop signal is polled at the top of each iteration
CheckDone ==
  /\ pc = "check"
  /\ pc' = IF done_signal = "Sent" THEN "exited" ELSE "select"
  /\ UNCHANGED << state, receive_timeout, retry_timeout, commands,
                  incoming_messages, done_signal, last_action, accepted,
                  written, inflight, hist, tableVars, call >>

\* no send has failed and no timer was ever started. failed_send holds the
\* frame whose send failed and the number of frames written before it;
\* armed_since_write: the receive timer was started after the last frame was
\* written.
NoHistory ==
  [failed_send |-> << >>, receive_started |-> FALSE,
   armed_since_write |-> FALSE, retry_started |-> FALSE]

\* driver.rs 203-270: one pass of the loop body from select! on
Iterate ==
  /\ pc = "select"
  /\ \E src \in SelectReady, send_ok \in BOOLEAN :
       LET a == SelectAction(src)
           rt == IF src = "receive_timeout" THEN "Elapsed" ELSE receive_timeout
           yt == IF src = "retry_timeout" THEN "Elapsed" ELSE retry_timeout
           out == RunStep(state, a, send_ok, rt, yt)
           freed == IF Releases(state, a) /\ inflight # << >>
                       /\ Head(inflight) = InFlightOf(state)
                      THEN Tail(inflight) ELSE inflight
       IN /\ last_action' = a
          /\ state' = out.state
          /\ receive_timeout' = out.receive_timeout
          /\ retry_timeout' = out.retry_timeout
          /\ pc' = IF out.exit THEN "exited" ELSE "check"
          /\ written' = written \o out.sent
          /\ inflight' = freed \o out.sent
          /\ commands' = IF src = "commands" THEN Tail(commands) ELSE commands
          /\ accepted' = IF src = "commands"
                           THEN Append(accepted, Head(commands)) ELSE accepted
          /\ incoming_messages' = IF src = "incoming_messages"
                                    THEN Tail(incoming_messages)
                                    ELSE incoming_messages
          /\ hist' =
               [failed_send |->
                  IF out.effect.kind = "SendMidiMessage" /\ ~send_ok
                    THEN << [msg |-> out.effect.msg, at |-> Len(written)] >>
                    ELSE hist.failed_send,
                receive_started |->
                  hist.receive_started
                    \/ out.effect.kind = "StartReceiveTimeout",
                armed_since_write |->
                  IF out.effect.kind = "StartReceiveTimeout" THEN TRUE
                  ELSE IF out.sent # << >> THEN FALSE
                  ELSE hist.armed_since_write,
                retry_started |->
                  hist.retry_started \/ out.effect.kind = "StartRetryTimeout"]
  /\ UNCHANGED << done_signal, tableVars, call >>

\* a client sends a frame on the channel run() reads as `commands`
Submit(m) ==
  /\ pc # "exited"
  /\ Len(accepted) + Len(commands) < MaxSubmit
  /\ commands' = Append(commands, m)
  /\ UNCHANGED << state, receive_timeout, retry_timeout, incoming_messages,
                  done_signal, pc, last_action, accepted, written, inflight,
                  hist, tableVars, call >>

\* device.rs 42-47: the midir input callback forwards a received frame
Deliver(m) ==
  /\ pc # "exited"
  /\ Len(incoming_messages) < MaxIncoming
  /\ incoming_messages' = Append(incoming_messages, m)
  /\ UNCHANGED << state, receive_timeout, retry_timeout, commands,
                  done_signal, pc, last_action, accepted, written, inflight,
                  hist, tableVars, call >>

\* the owner of the oneshot sender fires the stop signal
Stop ==
  /\ pc # "exited"
  /\ done_signal = "Empty"
  /\ done_signal' = "Sent"
  /\ UNCHANGED << state, receive_timeout, retry_timeout, commands,
                  incoming_messages, pc, last_action, accepted, written,
                  inflight, hist, tableVars, call >>

\* MidiDriver::new and the first lines of run(): driver.rs 156-163, 194
Init ==
  /\ state = Idle
  /\ receive_timeout = "None"
  /\ retry_timeout = "None"
  /\ commands = << >>
  /\ incoming_messages = << >>
  /\ done_signal = "Empty"
  /\ pc = "check"
  /\ last_action = NoAction
  /\ accepted = << >>
  /\ written = << >>
  /\ inflight = << >>
  /\ hist = NoHistory
  /\ prev_state = Idle
  /\ action = NoAction
  /\ effect = NoEffect
  /\ call = [fn |-> "none"]

Next ==
  \/ CheckDone
  \/ Iterate
  \/ \E m \in Frames : Submit(m)
  \/ \E m \in Frames : Deliver(m)
  \/ Stop

Spec == Init /\ [][Next]_vars

\* the driver loop while the device stays silent (no inbound frame is ever
\* delivered). The loop is a running task: a pass that can be taken is taken,
\* and a select! with a completed or armed timer, or a waiting command,
\* eventually returns.
NextSilent ==
  \/ CheckDone
  \/ Iterate
  \/ \E m \in Frames : Submit(m)
  \/ Stop

LiveSpec ==
  Init /\ [][NextSilent]_vars /\ WF_vars(CheckDone) /\ WF_vars(Iterate)

-----------------------------------------------------------------------------
(* SpecTable: State::next and State::enter on any State value              *)

RECURSIVE SeqsUpTo(_)
SeqsUpTo(n) ==
  IF n = 0 THEN {<< >>}
  ELSE LET shorter == SeqsUpTo(n - 1)
       IN shorter \cup {Append(q, m) : q \in {x \in shorter : Len(x) = n - 1},
                                       m \in Frames}

\* the values of State (driver.rs 12-18) with queues of at most MaxQueue
\* frames; a ProcessingQueue is built with a non-empty queue only
TableStates ==
  LET Q == SeqsUpTo(MaxQueue)
  IN {Idle, Failed}
       \cup {ProcessingQueue(q) : q \in Q \ {<< >>}}
       \cup {AwaitingResponse(q, c) : q \in Q, c \in Frames}
       \cup {DeviceBusy(q, r) : q \in Q, r \in Frames}

TableInit ==
  /\ state \in TableStates
  /\ prev_state = state
  /\ action = NoAction
  /\ effect = enter(state)
  /\ receive_timeout = "None"
  /\ retry_timeout = "None"
  /\ commands = << >>
  /\ incoming_messages = << >>
  /\ done_signal = "Empty"
  /\ pc = "table"
  /\ last_action = NoAction
  /\ accepted = << >>
  /\ written = << >>
  /\ inflight = << >>
  /\ hist = NoHistory
  /\ call = [fn |-> "none"]

\* state = state.next(a), then state.enter()
Transition(a) ==
  /\ state.kind # "Panicked"
  /\ prev_state' = state
  /\ action' = a
  /\ state' = next(state, a)
  /\ effect' = enter(state')
  /\ UNCHANGED << driverVars, call >>

TSubmitCommand(m) ==
  /\ state.kind \in {"ProcessingQueue", "AwaitingResponse", "DeviceBusy"}
       => Len(state.send_queue) <= MaxQueue
  /\ Transition(SubmitCommand(m))

TMessageSent(m) == Transition(MessageSent(m))

TMessageReceived(m) == Transition(MessageReceived(m))

TResponseTimedOut == Transition(ResponseTimedOut)

TReadyToRetry == Transition(ReadyToRetry)

TableNext ==
  \/ \E m \in Frames : TSubmitCommand(m)
  \/ \E m \in Frames : TMessageSent(m)
  \/ \E m \in Frames : TMessageReceived(m)
  \/ TResponseTimedOut
  \/ TReadyToRetry

SpecTable == TableInit /\ [][TableNext]_vars

\* SpecReach: the States any sequence of Actions leads to from Idle, the
\* state run() starts in (driver.rs 194)
ReachInit ==
  /\ state = Idle
  /\ TableInit

SpecReach == ReachInit /\ [][TableNext]_vars

-----------------------------------------------------------------------------
(* Properties of the driver loop (Spec, LiveSpec)                          *)

IsPrefix(p, q) ==
  /\ Len(p) <= Len(q)
  /\ \A i \in 1..Len(p) : p[i] = q[i]

\* C1: the frames written to the transport are, in order, a prefix of the
\* commands accepted from the submission channel: sent in submission order,
\* none skipped, none sent twice.
C1_WrittenIsPrefixOfAccepted == IsPrefix(written, accepted)

\* C1 witness: three commands were accepted, not all alike, and all three
\* were written
C1_Witness ==
  /\ Len(accepted) = 3
  /\ Len(written) = 3
  /\ accepted[2] # accepted[3]

\* C2: never two frames in flight. `inflight` gains a frame at each write and
\* loses its head only when `next` handles MessageReceived or ResponseTimedOut
\* in AwaitingResponse for that frame (or ReadyToRetry in DeviceBusy), so a
\* second write before such a transition leaves two frames in it.
C2_OneFrameInFlight ==
  /\ Len(inflight) <= 1
  /\ (pc # "exited" /\ state.kind = "AwaitingResponse")
       => inflight = << state.command_sent >>

\* C2 witness: a second frame was written and is the only one in flight
C2_Witness ==
  /\ Len(written) >= 2
  /\ Len(inflight) = 1
  /\ state.kind = "AwaitingResponse"

\* C3: with a silent device, a frame in flight (the n-th written, the loop in
\* AwaitingResponse) leads to the loop having handled ResponseTimedOut and
\* gone on with the queue: Idle, or the next frame written. The loop ending
\* (stop signal, transport failure) also ends the wait.
C3_TimeoutResumesQueue ==
  \A n \in 1..MaxSubmit :
    (pc # "exited" /\ state.kind = "AwaitingResponse" /\ Len(written) = n)
      ~> \/ pc = "exited"
         \/ /\ last_action = ResponseTimedOut
            /\ state = Idle \/ Len(written) > n

\* C11: when a write to the transport fails the loop ends in that pass: no
\* MessageSent is applied for the frame (it is still the head of a
\* ProcessingQueue, not a command_sent), and from then on nothing more is
\* written, neither that frame again nor a later one.
C11_SendFailureEndsLoop ==
  hist.failed_send # << >>
    => /\ pc = "exited"
       /\ Len(written) = hist.failed_send[1].at
       /\ state.kind = "ProcessingQueue"
       /\ state.send_queue[1] = hist.failed_send[1].msg

\* C11 witness: a send failed after a frame had been written, with another
\* command still queued behind the failed one
C11_Witness ==
  /\ hist.failed_send # << >>
  /\ Len(written) >= 1
  /\ state.kind = "ProcessingQueue"
  /\ Len(state.send_queue) >= 2

\* C12: a pass that begins with the stop signal set ends the loop before the
\* wait: from the top of the loop with the signal set, the loop never gets to
\* select!, handles no Action, accepts no command and writes no frame.
C12_StopEndsLoop ==
  [][(pc = "check" /\ done_signal = "Sent")
       => /\ pc' \in {"check", "exited"}
          /\ state' = state
          /\ last_action' = last_action
          /\ accepted' = accepted
          /\ written' = written]_vars

\* C12 witness: the loop ended on the stop signal (no send failed, the state
\* is not Failed) with a frame in flight and a command waiting in the channel
C12_Witness ==
  /\ pc = "exited"
  /\ done_signal = "Sent"
  /\ hist.failed_send = << >>
  /\ state.kind = "AwaitingResponse"
  /\ commands # << >>

\* C19: a timer that was never started never elapses: the loop handles no
\* ResponseTimedOut before a StartReceiveTimeout was performed, and no
\* ReadyToRetry before a StartRetryTimeout was performed; while a timer is
\* None its select! branch is not among the ready ones.
C19_UnstartedTimerNeverElapses ==
  /\ last_action.kind = "ResponseTimedOut" => hist.receive_started
  /\ last_action.kind = "ReadyToRetry" => hist.retry_started
  /\ (pc = "select" /\ receive_timeout = "None")
       => "receive_timeout" \notin SelectReady
  /\ (pc = "select" /\ retry_timeout = "None")
       => "retry_timeout" \notin SelectReady

\* C19 witness: the loop handled a ResponseTimedOut, and a retry timer was
\* never started
C19_Witness ==
  /\ last_action.kind = "ResponseTimedOut"
  /\ hist.receive_started
  /\ retry_timeout = "None"

\* C20: a ResponseTimedOut handled in AwaitingResponse{sent} comes from a
\* receive timer armed after `sent` was written: at every pass of the loop
\* that handles ResponseTimedOut in AwaitingResponse, a StartReceiveTimeout
\* was performed since the last write to the transport.
C20_TimeoutArmedAfterWrite ==
  [][(/\ pc = "select"
      /\ pc' # "select"
      /\ last_action'.kind = "ResponseTimedOut"
      /\ state.kind = "AwaitingResponse")
       => hist.armed_since_write]_vars

\* C21: one arming of the receive timer gives at most one ResponseTimedOut:
\* when the timer has elapsed and its ResponseTimedOut was handled, no pass
\* of the loop derives ResponseTimedOut again until StartReceiveTimeout is
\* performed again (which makes the timer Pending).
C21_OneTimeoutPerArming ==
  [][(/\ pc = "select"
      /\ pc' # "select"
      /\ receive_timeout = "Elapsed")
       => last_action'.kind # "ResponseTimedOut"]_vars

\* C22: the loop never reaches Failed: where it waits (and at the top of the
\* loop) the state is Idle, AwaitingResponse or DeviceBusy, so every Action
\* select! can derive there has a matching arm, and every accepted command is
\* written, in flight or still queued.
C22_LoopNeverFails ==
  /\ state.kind # "Failed"
  /\ pc \in {"check", "select"}
       => /\ state.kind \in {"Idle", "AwaitingResponse", "DeviceBusy"}
          /\ \A src \in {"receive_timeout", "retry_timeout",
                          "incoming_messages", "commands"} :
               (src = "incoming_messages" => incoming_messages # << >>)
                 /\ (src = "commands" => commands # << >>)
                 => next(state, SelectAction(src)).kind # "Failed"
          /\ Len(accepted) =
               Len(written)
                 + (IF state.kind = "Idle" THEN 0 ELSE Len(state.send_queue))

\* C22 witness: the loop waits with a frame in flight and two commands,
\* submitted meanwhile, queued behind it
C22_Witness ==
  /\ pc = "select"
  /\ state.kind = "AwaitingResponse"
  /\ Len(state.send_queue) = 2
  /\ last_action.kind = "SubmitCommand"
  /\ Len(written) = 1

\* C23: DeviceBusy is not reached from Idle: the loop's state is never
\* DeviceBusy and no Action applied to it yields DeviceBusy, so
\* StartRetryTimeout is never performed, ReadyToRetry is never derived, and
\* no accepted command is written twice (the frames written are a prefix of
\* the commands accepted).
C23_DeviceBusyUnreachable ==
  /\ state.kind # "DeviceBusy"
  /\ \A a \in {SubmitCommand(m) : m \in Frames}
              \cup {MessageSent(m) : m \in Frames}
              \cup {MessageReceived(m) : m \in Frames}
              \cup {ResponseTimedOut, ReadyToRetry} :
       /\ next(state, a).kind # "DeviceBusy"
       /\ enter(next(state, a)).kind # "StartRetryTimeout"
  /\ ~hist.retry_started
  /\ retry_timeout = "None"
  /\ last_action.kind # "ReadyToRetry"
  /\ Len(written) <= Len(accepted)
  /\ \A i \in 1..Len(written) : written[i] = accepted[i]

\* C23 witness: a response timed out and the loop went on to write the next
\* frame, with nothing kept for a retry
C23_Witness ==
  /\ last_action.kind = "ResponseTimedOut"
  /\ state.kind = "AwaitingResponse"
  /\ Len(written) >= 2

-----------------------------------------------------------------------------
(* Properties of State::next and State::enter (SpecTable)                  *)

\* C7: SubmitCommand(m) from Idle yields ProcessingQueue{[m]} whose enter is
\* SendMidiMessage(m); every ProcessingQueue{q} enters with
\* SendMidiMessage(q[0]); MessageSent(m) on ProcessingQueue{q} yields
\* AwaitingResponse{q without its head, m}, whose enter is StartReceiveTimeout.
C7_SubmitSendAwait ==
  /\ (action.kind = "SubmitCommand" /\ prev_state.kind = "Idle")
       => /\ state = [kind |-> "ProcessingQueue", send_queue |-> << action.msg >>]
          /\ effect = [kind |-> "SendMidiMessage", msg |-> action.msg]
  /\ state.kind = "ProcessingQueue"
       => effect = [kind |-> "SendMidiMessage", msg |-> state.send_queue[1]]
  /\ (action.kind = "MessageSent" /\ prev_state.kind = "ProcessingQueue")
       => /\ state.kind = "AwaitingResponse"
          /\ state.command_sent = action.msg
          /\ Len(state.send_queue) = Len(prev_state.send_queue) - 1
          /\ \A i \in 1..Len(state.send_queue) :
               state.send_queue[i] = prev_state.send_queue[i + 1]
          /\ effect = [kind |-> "StartReceiveTimeout"]

\* C7 witness: MessageSent was applied to a ProcessingQueue of two frames
C7_Witness ==
  /\ action.kind = "MessageSent"
  /\ prev_state.kind = "ProcessingQueue"
  /\ Len(prev_state.send_queue) = 2
  /\ state.kind = "AwaitingResponse"

\* C8: SubmitCommand(m) in AwaitingResponse or DeviceBusy appends m at the
\* tail of the queue and changes nothing else: same kind, same queued frames
\* in the same order, same in-flight frame.
C8_SubmitAppendsOnly ==
  (action.kind = "SubmitCommand"
     /\ prev_state.kind \in {"AwaitingResponse", "DeviceBusy"})
    => /\ state.kind = prev_state.kind
       /\ Len(state.send_queue) = Len(prev_state.send_queue) + 1
       /\ \A i \in 1..Len(prev_state.send_queue) :
            state.send_queue[i] = prev_state.send_queue[i]
       /\ state.send_queue[Len(state.send_queue)] = action.msg
       /\ state.kind = "AwaitingResponse"
            => state.command_sent = prev_state.command_sent
       /\ state.kind = "DeviceBusy" => state.to_retry = prev_state.to_retry

\* C8 witness: a command was submitted to a DeviceBusy with a queued frame
C8_Witness ==
  /\ action.kind = "SubmitCommand"
  /\ prev_state.kind = "DeviceBusy"
  /\ Len(prev_state.send_queue) >= 1
  /\ state.kind = "DeviceBusy"

\* C9: ReadyToRetry in DeviceBusy{q, r} yields ProcessingQueue{[r] then q},
\* so the frame to retry is the one the new state sends.
C9_RetryGoesFirst ==
  (action.kind = "ReadyToRetry" /\ prev_state.kind = "DeviceBusy")
    => /\ state.kind = "ProcessingQueue"
       /\ Len(state.send_queue) = Len(prev_state.send_queue) + 1
       /\ state.send_queue[1] = prev_state.to_retry
       /\ \A i \in 1..Len(prev_state.send_queue) :
            state.send_queue[i + 1] = prev_state.send_queue[i]
       /\ effect = [kind |-> "SendMidiMessage", msg |-> prev_state.to_retry]

\* C9 witness: ReadyToRetry was applied to a DeviceBusy whose queue holds a
\* frame other than the one to retry
C9_Witness ==
  /\ action.kind = "ReadyToRetry"
  /\ prev_state.kind = "DeviceBusy"
  /\ Len(prev_state.send_queue) >= 1
  /\ prev_state.send_queue[1] # prev_state.to_retry
  /\ state.kind = "ProcessingQueue"

\* C10: MessageReceived or ResponseTimedOut outside AwaitingResponse, and
\* ReadyToRetry outside DeviceBusy, return the state they were given, and do
\* not turn a state that is not Failed into Failed.
C10_StrayActionIgnored ==
  (\/ action.kind \in {"MessageReceived", "ResponseTimedOut"}
        /\ prev_state.kind # "AwaitingResponse"
   \/ action.kind = "ReadyToRetry" /\ prev_state.kind # "DeviceBusy")
    => /\ state = prev_state
       /\ prev_state.kind # "Failed" => state.kind # "Failed"

\* C10 witness: ReadyToRetry was applied to an AwaitingResponse with a queue
C10_Witness ==
  /\ action.kind = "ReadyToRetry"
  /\ prev_state.kind = "AwaitingResponse"
  /\ Len(prev_state.send_queue) >= 1
  /\ state.kind = "AwaitingResponse"

\* C16: in AwaitingResponse{q, sent}, MessageReceived (whatever the frame) and
\* ResponseTimedOut yield Idle when q is empty and ProcessingQueue{q}
\* otherwise, q unchanged; `sent` is dropped: it is not in the new state, and
\* the new state's enter sends the head of q or nothing.
C16_ResponseOrTimeoutDropsSent ==
  (prev_state.kind = "AwaitingResponse"
     /\ action.kind \in {"MessageReceived", "ResponseTimedOut"})
    => IF prev_state.send_queue = << >>
         THEN /\ state = [kind |-> "Idle"]
              /\ effect = [kind |-> "None"]
         ELSE /\ state = [kind |-> "ProcessingQueue",
                          send_queue |-> prev_state.send_queue]
              /\ effect = [kind |-> "SendMidiMessage",
                           msg |-> prev_state.send_queue[1]]

\* C16 witness: a timeout in an AwaitingResponse with two queued frames, the
\* first of them unlike the frame in flight
C16_Witness ==
  /\ action.kind = "ResponseTimedOut"
  /\ prev_state.kind = "AwaitingResponse"
  /\ Len(prev_state.send_queue) = 2
  /\ prev_state.send_queue[1] # prev_state.command_sent
  /\ state.kind = "ProcessingQueue"

\* C17 (SpecReach): every ProcessingQueue reached from Idle has a non-empty
\* queue, so its enter reads send_queue[0] of a non-empty vector, and the
\* slice send_queue[1..] of MessageSent is in range: nothing panics.
C17_ProcessingQueueNonEmpty ==
  /\ state.kind = "ProcessingQueue"
       => /\ Len(state.send_queue) >= 1
          /\ effect.kind = "SendMidiMessage"
  /\ state.kind # "Panicked"
  /\ effect.kind # "Panicked"

\* C17 witness: a response moved an AwaitingResponse with a queue to
\* ProcessingQueue
C17_Witness ==
  /\ action.kind = "MessageReceived"
  /\ prev_state.kind = "AwaitingResponse"
  /\ state.kind = "ProcessingQueue"

\* C18: the pairs no arm matches (SubmitCommand in ProcessingQueue or Failed,
\* MessageSent outside ProcessingQueue) yield Failed; every Action applied to
\* Failed yields Failed, whose enter gives no Effect; and the loop body
\* (RunStep) applied to a pair that yields Failed ends the loop with no
\* Effect performed: nothing sent, no timer started.
C18_UnmatchedPairFails ==
  /\ (action.kind = "SubmitCommand"
        /\ prev_state.kind \in {"ProcessingQueue", "Failed"})
       => state.kind = "Failed"
  /\ (action.kind = "MessageSent" /\ prev_state.kind # "ProcessingQueue")
       => state.kind = "Failed"
  /\ (action.kind # "None" /\ prev_state.kind = "Failed")
       => state.kind = "Failed"
  /\ state.kind = "Failed" => effect = [kind |-> "None"]
  /\ (action.kind # "None" /\ state.kind = "Failed")
       => \A send_ok \in BOOLEAN :
            LET out == RunStep(prev_state, action, send_ok, "None", "None")
            IN /\ out.exit
               /\ out.state.kind = "Failed"
               /\ out.effect = [kind |-> "None"]
               /\ out.sent = << >>
               /\ out.receive_timeout = "None"
               /\ out.retry_timeout = "None"

\* C18 witness: a command submitted to a ProcessingQueue gave Failed
C18_Witness ==
  /\ action.kind = "SubmitCommand"
  /\ prev_state.kind = "ProcessingQueue"
  /\ Len(prev_state.send_queue) = 2
  /\ state.kind = "Failed"

-----------------------------------------------------------------------------
(* The frame codec: sysex.rs, commands.rs. Bytes are numbers in 0..255,     *)
(* byte vectors and slices are sequences; At reads with the source's       *)
(* zero-based index.                                                       *)

\* longest payload handed to create_sysex
MaxPayload == 2

\* payload bytes tried: data bytes, and the two marker values
PayloadBytes == {0, 127, 240, 247}

\* the 7-bit groups the tried ping values are built from
ChunkValues == {0, 1, 127}

\* the 8-bit colour channel values tried
ChannelValues == {0, 1, 15, 16, 171, 240, 255}

\* the key indexes tried
KeyIndexes == {0, 7, 55}

At(msg, i) == msg[i + 1]

RECURSIVE BitAnd(_, _)
BitAnd(x, y) ==
  IF x = 0 \/ y = 0 THEN 0
  ELSE (IF x % 2 = 1 /\ y % 2 = 1 THEN 1 ELSE 0) + 2 * BitAnd(x \div 2, y \div 2)

RECURSIVE BitOr(_, _)
BitOr(x, y) ==
  IF x = 0 THEN y
  ELSE IF y = 0 THEN x
  ELSE (IF x % 2 = 1 \/ y % 2 = 1 THEN 1 ELSE 0) + 2 * BitOr(x \div 2, y \div 2)

\* u32 shifts
Shr(x, n) == x \div (2 ^ n)
Shl(x, n) == (x * (2 ^ n)) % (2 ^ 32)

\* `as u8`
AsU8(x) == x % 256

Ok(v) == [ok |-> TRUE, val |-> v]
Err(e) == [ok |-> FALSE, err |-> e]

\* the result of a call that panicked; no byte sequence holds -1
PANIC == << -1 >>

\* constants.rs is not among the sources: the manufacturer id, the echo flag
\* and the byte codes of BoardIndex and CommandId are the device protocol's
MANUFACTURER_ID == << 0, 33, 80 >>

TEST_ECHO == 127

BoardIndexes == {"Server", "Octave1", "Octave2", "Octave3", "Octave4", "Octave5"}

\* BoardIndex -> u8 (`board_index.into()`)
BoardIndexToU8(b) ==
  CASE b = "Server" -> 0
    [] b = "Octave1" -> 1
    [] b = "Octave2" -> 2
    [] b = "Octave3" -> 3
    [] b = "Octave4" -> 4
    [] b = "Octave5" -> 5

CommandIds == {"ChangeKeyNote", "SetKeyColour", "SaveProgram", "LumaPing"}

\* CommandId -> u8 (`cmd.into()`)
CommandIdToU8(c) ==
  CASE c = "ChangeKeyNote" -> 0
    [] c = "SetKeyColour" -> 1
    [] c = "SaveProgram" -> 2
    [] c = "LumaPing" -> 51

\* FromPrimitive::from_u8 for CommandId: Option<CommandId>
CommandIdFromU8(b) ==
  IF \E c \in CommandIds : CommandIdToU8(c) = b
    THEN [some |-> TRUE, val |-> CHOOSE c \in CommandIds : CommandIdToU8(c) = b]
    ELSE [some |-> FALSE]

\* sysex.rs 13-23
CMD_ID == 4
PAYLOAD_INIT == 6
SYSEX_START == 240
SYSEX_END == 247

\* mutant: the command id is pushed before the board index
create_sysex_CmdFirst(board_index, cmd, data) ==
  << SYSEX_START >> \o MANUFACTURER_ID \o << CommandIdToU8(cmd) >>
    \o << BoardIndexToU8(board_index) >> \o data \o << SYSEX_END >>

\* sysex.rs 27-36
create_sysex(board_index, cmd, data) ==
  << SYSEX_START >> \o MANUFACTURER_ID \o << BoardIndexToU8(board_index) >>
    \o << CommandIdToU8(cmd) >> \o data \o << SYSEX_END >>

\* sysex.rs 82-93. `end -= 1` on end = 0 overflows usize: a panic (with
\* overflow checks off it wraps and the slice index panics instead)
strip_sysex_markers(msg) ==
  IF Len(msg) = 0 THEN msg
  ELSE LET start == IF At(msg, 0) = SYSEX_START THEN 1 ELSE 0
           last == Len(msg) - 1
       IN IF At(msg, last) = SYSEX_END
            THEN IF last = 0
                   THEN PANIC
                   ELSE SubSeq(msg, start + 1, last)       \* &msg[start..=last-1]
            ELSE SubSeq(msg, start + 1, last + 1)          \* &msg[start..=last]

\* sysex.rs 95-107
is_lumatone_message(msg) ==
  LET m == strip_sysex_markers(msg)
  IN IF Len(m) < 3 THEN FALSE
     ELSE \A i \in 0..2 : At(MANUFACTURER_ID, i) = At(m, i)

\* sysex.rs 109-115
message_payload(msg) ==
  LET m == strip_sysex_markers(msg)
  IN IF m = PANIC THEN Err("panic")
     ELSE IF Len(m) < PAYLOAD_INIT
       THEN Err("message too short, unable to extract payload")
     ELSE Ok(SubSeq(m, PAYLOAD_INIT + 1, Len(m)))

\* sysex.rs 117-125
message_command_id(msg) ==
  LET m == strip_sysex_markers(msg)
  IN IF m = PANIC THEN Err("panic")
     ELSE IF Len(m) <= CMD_ID
       THEN Err("message too short - unable to determine command id")
     ELSE LET cmd == CommandIdFromU8(At(m, CMD_ID))
          IN IF cmd.some THEN Ok(cmd.val) ELSE Err("unknown command id")

\* mutant: the high and the low nibble of each channel change places
encode_rgb_LowFirst(red, green, blue) ==
  << BitAnd(red, 15), Shr(red, 4), BitAnd(green, 15), Shr(green, 4),
     BitAnd(blue, 15), Shr(blue, 4) >>

\* sysex.rs 70-78
encode_rgb(red, green, blue) ==
  << Shr(red, 4), BitAnd(red, 15), Shr(green, 4), BitAnd(green, 15),
     Shr(blue, 4), BitAnd(blue, 15) >>

\* sysex.rs 43-55
create_extended_key_color_sysex(board_index, cmd, key_index, red, green, blue) ==
  create_sysex(board_index, cmd, << key_index >> \o encode_rgb(red, green, blue))

\* commands.rs 37-45
set_key_light_parameters(board_index, key_index, red, green, blue) ==
  create_extended_key_color_sysex(board_index, "SetKeyColour", key_index,
                                  red, green, blue)

\* mutant: the bound is off by one
save_program_UpTo10(preset_number) ==
  IF preset_number > 10
    THEN Err([kind |-> "InvalidCommandInput", cmd |-> "SaveProgram"])
    ELSE Ok(create_sysex("Server", "SaveProgram", << preset_number >>))

\* commands.rs 48-61
save_program(preset_number) ==
  IF preset_number > 9
    THEN Err([kind |-> "InvalidCommandInput", cmd |-> "SaveProgram"])
    ELSE Ok(create_sysex("Server", "SaveProgram", << preset_number >>))

\* commands.rs 65-77
ping(value) ==
  LET val == BitAnd(value, 268435455)
  IN create_sysex("Server", "LumaPing",
       << TEST_ECHO,
          AsU8(BitAnd(Shr(val, 14), 127)),
          AsU8(BitAnd(Shr(val, 7), 127)),
          AsU8(BitAnd(val, 127)) >>)

\* commands.rs 81-110
decode_ping(msg) ==
  IF strip_sysex_markers(msg) = PANIC THEN Err("panic")
  ELSE IF ~is_lumatone_message(msg) THEN Err("NotLumatoneMessage")
  ELSE LET cmd_id == message_command_id(msg)
           payload == message_payload(msg)
       IN IF ~cmd_id.ok THEN Err(cmd_id.err)
          ELSE IF cmd_id.val # "LumaPing" THEN Err("UnexpectedCommandId")
          ELSE IF ~payload.ok THEN Err(payload.err)
          ELSE IF Len(payload.val) < 4
            THEN Err([kind |-> "MessagePayloadTooShort", expected |-> 4,
                      actual |-> Len(payload.val)])
          ELSE IF At(payload.val, 0) # TEST_ECHO
            THEN Err("InvalidResponseMessage")
          ELSE Ok(BitOr(BitOr(Shl(At(payload.val, 1), 14),
                              Shl(At(payload.val, 2), 7)),
                        At(payload.val, 3)))

-----------------------------------------------------------------------------
(* SpecCodec: the codec functions called on bounded inputs, one call per    *)
(* behaviour                                                               *)

\* 28-bit values built from four 7-bit groups
PingValues ==
  {a * (2 ^ 21) + b * (2 ^ 14) + c * (2 ^ 7) + d :
     a \in ChunkValues, b \in ChunkValues, c \in ChunkValues, d \in ChunkValues}

RECURSIVE PayloadsUpTo(_)
PayloadsUpTo(n) ==
  IF n = 0 THEN {<< >>}
  ELSE LET shorter == PayloadsUpTo(n - 1)
       IN shorter \cup {Append(q, b) : q \in {x \in shorter : Len(x) = n - 1},
                                       b \in PayloadBytes}

CodecInit ==
  /\ call = [fn |-> "none"]
  /\ state = Idle
  /\ prev_state = Idle
  /\ action = NoAction
  /\ effect = NoEffect
  /\ receive_timeout = "None"
  /\ retry_timeout = "None"
  /\ commands = << >>
  /\ incoming_messages = << >>
  /\ done_signal = "Empty"
  /\ pc = "codec"
  /\ last_action = NoAction
  /\ accepted = << >>
  /\ written = << >>
  /\ inflight = << >>
  /\ hist = NoHistory

\* decode_ping(&ping(value))
CallPing(value) ==
  /\ call.fn = "none"
  /\ call' = [fn |-> "ping", value |-> value, frame |-> ping(value),
              decoded |-> decode_ping(ping(value))]
  /\ UNCHANGED << state, driverVars, tableVars >>

\* message_payload and message_command_id of create_sysex(board, cmd, data)
CallCreateSysex(board_index, cmd, data) ==
  LET frame == create_sysex(board_index, cmd, data)
  IN /\ call.fn = "none"
     /\ call' = [fn |-> "create_sysex", board_index |-> board_index,
                 cmd |-> cmd, data |-> data, frame |-> frame,
                 payload |-> message_payload(frame),
                 command_id |-> message_command_id(frame)]
     /\ UNCHANGED << state, driverVars, tableVars >>

\* save_program(preset_number), for every u8
CallSaveProgram(preset_number) ==
  /\ call.fn = "none"
  /\ call' = [fn |-> "save_program", preset_number |-> preset_number,
              result |-> save_program(preset_number)]
  /\ UNCHANGED << state, driverVars, tableVars >>

\* strip_sysex_markers(msg)
CallStripSysexMarkers(msg) ==
  /\ call.fn = "none"
  /\ call' = [fn |-> "strip_sysex_markers", msg |-> msg,
              result |-> strip_sysex_markers(msg)]
  /\ UNCHANGED << state, driverVars, tableVars >>

\* message_payload(&set_key_light_parameters(board, key, red, green, blue))
CallSetKeyLightParameters(board_index, key_index, red, green, blue) ==
  LET frame == set_key_light_parameters(board_index, key_index, red, green, blue)
  IN /\ call.fn = "none"
     /\ call' = [fn |-> "set_key_light_parameters",
                 board_index |-> board_index, key_index |-> key_index,
                 red |-> red, green |-> green, blue |-> blue,
                 frame |-> frame, payload |-> message_payload(frame)]
     /\ UNCHANGED << state, driverVars, tableVars >>

CodecNext ==
  \/ \E value \in PingValues : CallPing(value)
  \/ \E board_index \in BoardIndexes, cmd \in CommandIds,
        data \in PayloadsUpTo(MaxPayload) :
       CallCreateSysex(board_index, cmd, data)
  \/ \E preset_number \in 0..255 : CallSaveProgram(preset_number)
  \/ \E msg \in PayloadsUpTo(MaxPayload + 1) : CallStripSysexMarkers(msg)
  \/ \E board_index \in BoardIndexes, key_index \in KeyIndexes,
        red \in ChannelValues, green \in ChannelValues,
        blue \in ChannelValues :
       CallSetKeyLightParameters(board_index, key_index, red, green, blue)

SpecCodec == CodecInit /\ [][CodecNext]_vars

-----------------------------------------------------------------------------
(* Properties of the codec (SpecCodec)                                     *)

\* C4: for every 28-bit value v, decode_ping of the frame ping(v) builds is
\* Ok(v).
C4_PingRoundTrip ==
  call.fn = "ping" => call.decoded = [ok |-> TRUE, val |-> call.value]

\* C5: for every board, command and payload, the empty payload included,
\* message_payload of create_sysex(board, command, payload) is Ok(payload).
C5_PayloadRoundTrip ==
  call.fn = "create_sysex" => call.payload = [ok |-> TRUE, val |-> call.data]

\* C6: for every board, command and payload, message_command_id of
\* create_sysex(board, command, payload) is Ok(command).
C6_CommandIdRoundTrip ==
  call.fn = "create_sysex" => call.command_id = [ok |-> TRUE, val |-> call.cmd]

\* C6 witness: a ping frame for a board other than the server whose payload
\* ends in the END marker's value
C6_Witness ==
  /\ call.fn = "create_sysex"
  /\ call.cmd = "LumaPing"
  /\ call.board_index = "Octave3"
  /\ Len(call.data) = 2
  /\ call.data[2] = SYSEX_END
  /\ call.command_id.ok

\* C13: save_program(preset) is an input-validation error, with no frame, for
\* every preset > 9; for every preset in 0..9 it is a frame addressed to the
\* control board with command SaveProgram and the one payload byte preset.
C13_SaveProgramRange ==
  call.fn = "save_program"
    => /\ call.preset_number > 9
            => /\ ~call.result.ok
               /\ call.result.err.kind = "InvalidCommandInput"
       /\ call.preset_number <= 9
            => /\ call.result.ok
               /\ call.result.val =
                    << SYSEX_START >> \o MANUFACTURER_ID
                      \o << BoardIndexToU8("Server"), CommandIdToU8("SaveProgram"),
                            call.preset_number, SYSEX_END >>

\* C13 witness: save_program(9) returned a frame
C13_Witness ==
  /\ call.fn = "save_program"
  /\ call.preset_number = 9
  /\ call.result.ok

\* C14: for every byte sequence, the empty one and the one-byte sequences of a
\* marker included, strip_sysex_markers returns, and returns its input without
\* a leading START marker and without a trailing END marker.
C14_StripMarkers ==
  call.fn = "strip_sysex_markers"
    => LET m == call.msg
           lead == IF Len(m) > 0 /\ m[1] = 240 THEN 1 ELSE 0
           trail == IF Len(m) > 0 /\ m[Len(m)] = 247 THEN 1 ELSE 0
       IN call.result = [i \in 1..(Len(m) - lead - trail) |-> m[i + lead]]

\* C15: the payload message_payload extracts from
\* set_key_light_parameters(board, key, r, g, b) is six bytes, each in 0..15,
\* R-hi, R-lo, G-hi, G-lo, B-hi, B-lo, and hi * 16 + lo is the channel's value.
C15_KeyColourNibbles ==
  call.fn = "set_key_light_parameters"
    => /\ call.payload.ok
       /\ Len(call.payload.val) = 6
       /\ \A i \in 1..6 : call.payload.val[i] \in 0..15
       /\ call.payload.val[1] * 16 + call.payload.val[2] = call.red
       /\ call.payload.val[3] * 16 + call.payload.val[4] = call.green
       /\ call.payload.val[5] * 16 + call.payload.val[6] = call.blue

\* C15 witness: a key colour whose three channels have unlike nibbles
C15_Witness ==
  /\ call.fn = "set_key_light_parameters"
  /\ call.red = 171
  /\ call.green = 240
  /\ call.blue = 15
  /\ call.key_index = 55
  /\ call.payload.ok

====
